---- MODULE Spec2Model ----
(***************************************************************************)
(* TED RAG assistant: the ingestion script (src/scripts/index-ted.mjs),    *)
(* its chunker and retrying clients, and the query handler                 *)
(* (src/app/api/prompt/route.ts).                                          *)
(*                                                                         *)
(* Three specifications share the variables:                               *)
(*   Spec       the ingestion script, run after run over a fixed dataset   *)
(*   SpecChunk  chunkText applied to texts of every length up to a bound   *)
(*   SpecQuery  concurrent POST /api/prompt requests                       *)
(* Backoff sleeps only delay the next attempt and are not modelled.        *)
(***************************************************************************)
EXTENDS Integers, Sequences, FiniteSets, TLC

\* ------------------------------------------------------------ constants
CHUNK_SIZE == 1000
CHUNK_OVERLAP == 200
retries == 5

\* ------------------------------------------------------------ bounds
NumTalks == 12         \* rows of the dataset, indices 0 .. NumTalks-1
MaxRuns == 3           \* runs of the script, one after the other
MaxTextLen == 2500     \* longest text handed to chunkText in SpecChunk
MaxLoopLen == 8        \* longest text handed to chunkText in SpecChunkLoop
MaxWindow == 4         \* largest window and overlap tried besides the shipped pair
MaxRequests == 2       \* POST requests the server handles, possibly at once
AlphabetSize == 7      \* distinct characters of a text

VARIABLES
  \* ---- ingestion: what outlives a run
  talks,            \* the rows of the CSV file, in file order
  progressExists,   \* fs.existsSync(progressFile)
  progressFile,     \* content of progress.log, a string of characters
  store,            \* ids whose index.upsert call has returned
  runs,             \* runs of the script started so far
  \* ---- ingestion: locals of run(), getEmbedding and safeUpsert
  pc,               \* position of the script
  saved,            \* parseInt of progress.log, NaN when unreadable or absent
  startFrom,
  remainingTalks,
  pos,              \* rows of remainingTalks the for-of loop has consumed
  currentRow,
  vectorCounter,
  chunks,           \* chunkText(transcript), as [from, to) offsets
  i,                \* chunk index of the inner loop
  attempt,          \* loop variable of getEmbedding / safeUpsert
  embedding,        \* what getEmbedding returned for chunk i
  \* ---- ingestion: observation of the remote calls
  outstanding,      \* remote calls issued and not yet answered
  requests,         \* requests issued by the current getEmbedding/safeUpsert call
  failures,         \* attempts of that call that failed
  response,         \* how the last request of that call was answered
  error,            \* the Error that ended the run, if any
  clean,            \* no remote call of the current row has failed
  trace,            \* remote calls of the current row, kept while clean
  \* ---- chunker
  text,             \* the argument of chunkText
  textChunks,       \* what it returned
  cpc,              \* "call" before, "loop" inside, "returned" after
  window,           \* CHUNK_SIZE as chunkText reads it
  overlap,          \* CHUNK_OVERLAP as chunkText reads it
  start,            \* loop variable of chunkText
  \* ---- query handler
  llmApiKey,        \* process.env.LLM_API_KEY is set
  req               \* the POST requests in flight, each with its locals

ingestVars == <<talks, progressExists, progressFile, store, runs, pc, saved,
                startFrom, remainingTalks, pos, currentRow, vectorCounter,
                chunks, i, attempt, embedding, outstanding, requests, failures,
                response, error, clean, trace>>
chunkVars == <<text, textChunks, cpc, window, overlap, start>>
queryVars == <<llmApiKey, req>>
vars == <<ingestVars, chunkVars, queryVars>>

\* ------------------------------------------------------------ strings
Digits == <<"0", "1", "2", "3", "4", "5", "6", "7", "8", "9">>

NaN == -1

Min(a, b) == IF a < b THEN a ELSE b

Max(a, b) == IF a > b THEN a ELSE b

\* Number.prototype.toString() of a non-negative integer
RECURSIVE toString(_)
toString(n) ==
  IF n < 10 THEN <<Digits[n + 1]>>
  ELSE toString(n \div 10) \o <<Digits[(n % 10) + 1]>>

IsDigit(c) == \E d \in 1..10 : Digits[d] = c

DigitVal(c) == (CHOOSE d \in 1..10 : Digits[d] = c) - 1

RECURSIVE parseDigits(_, _)
parseDigits(s, acc) ==
  IF s = <<>> \/ ~IsDigit(Head(s)) THEN acc
  ELSE parseDigits(Tail(s), 10 * acc + DigitVal(Head(s)))

\* parseInt(string): the leading decimal digits, NaN when there are none
parseInt(s) ==
  IF s = <<>> \/ ~IsDigit(Head(s)) THEN NaN ELSE parseDigits(s, 0)

\* an offset given to slice: a negative one counts from the end
RelativeIndex(k, len) == IF k < 0 THEN Max(len + k, 0) ELSE Min(k, len)

\* Array.prototype.slice(from) / String.prototype.slice(from, to), 0-based
slice(s, from, to) ==
  SubSeq(s, RelativeIndex(from, Len(s)) + 1, RelativeIndex(to, Len(s)))

\* ------------------------------------------------------------ chunker
\* chunkLoop advancing by the whole window, so that chunks do not overlap
RECURSIVE chunkLoopNoOverlap(_, _, _)
chunkLoopNoOverlap(len, at, acc) ==
  IF at < len
  THEN chunkLoopNoOverlap(len, at + CHUNK_SIZE,
                          Append(acc, <<at, Min(at + CHUNK_SIZE, len)>>))
  ELSE acc

\* lines 110-116: the while loop, one chunk [at, end) per turn
RECURSIVE chunkLoop(_, _, _)
chunkLoop(len, at, acc) ==
  IF at < len
  THEN chunkLoop(len, at + (CHUNK_SIZE - CHUNK_OVERLAP),
                 Append(acc, <<at, Min(at + CHUNK_SIZE, len)>>))
  ELSE acc

\* the [from, to) offsets of the chunks chunkText cuts from a text of length len
chunkOffsets(len) == chunkLoop(len, 0, <<>>)

\* chunkText(text): the chunks themselves
chunkText(t) ==
  LET offs == chunkOffsets(Len(t))
  IN  [k \in 1..Len(offs) |-> slice(t, offs[k][1], offs[k][2])]

\* the text of length len used as input: character p is p mod AlphabetSize
Text(len) == [p \in 1..len |-> p % AlphabetSize]

\* ------------------------------------------------------------ dataset
TalkIdBase == 40

TranscriptKinds == <<"absent", "empty", "short", "long">>

ShortLen == 900
LongLen == 2400

Row(k, shift) ==
  LET kind == TranscriptKinds[((k + shift) % 4) + 1]
      id == TalkIdBase + k
  IN  CASE kind = "absent" -> [talk_id |-> id]
        [] kind = "empty"  -> [talk_id |-> id, transcript |-> 0]
        [] kind = "short"  -> [talk_id |-> id, transcript |-> ShortLen]
        [] kind = "long"   -> [talk_id |-> id, transcript |-> LongLen]

\* row k (0-based) is talks[k + 1]
Dataset(shift) == [k \in 1..NumTalks |-> Row(k - 1, shift)]

RowIndex(row) == row.talk_id - TalkIdBase

\* NoTranscript passing over a row only when the field is absent
NoTranscriptAbsentOnly(r) == "transcript" \notin DOMAIN r

\* !transcript : the field is absent or the empty string
NoTranscript(r) ==
  IF "transcript" \in DOMAIN r THEN r.transcript = 0 ELSE TRUE

\* vectorId numbering the chunks from 1
vectorIdFromOne(talk_id, k) == toString(talk_id) \o <<"-">> \o toString(k + 1)

\* line 167: `${talk_id}-${i}`
vectorId(talk_id, k) == toString(talk_id) \o <<"-">> \o toString(k)

\* the row the for-of loop is at
row == remainingTalks[pos + 1]

\* ------------------------------------------------------------ ingestion
ChunkIdle == /\ text = <<>>
             /\ textChunks = <<>>
             /\ cpc = "idle"
             /\ window = CHUNK_SIZE
             /\ overlap = CHUNK_OVERLAP
             /\ start = 0

QueryIdle == /\ llmApiKey = TRUE
             /\ req = <<>>

\* what the ingestion script never touches
others == <<chunkVars, queryVars>>

Init ==
  /\ talks \in {Dataset(s) : s \in 0..3}
  /\ progressExists = FALSE
  /\ progressFile = <<>>
  /\ store = {}
  /\ runs = 0
  /\ pc = "idle"
  /\ saved = NaN
  /\ startFrom = 1
  /\ remainingTalks = <<>>
  /\ pos = 0
  /\ currentRow = 1
  /\ vectorCounter = 0
  /\ chunks = <<>>
  /\ i = 0
  /\ attempt = 1
  /\ embedding = "none"
  /\ outstanding = 0
  /\ requests = 0
  /\ failures = 0
  /\ response = "none"
  /\ error = "none"
  /\ clean = TRUE
  /\ trace = <<>>
  /\ ChunkIdle
  /\ QueryIdle

persistent == <<talks, progressExists, progressFile, store>>
runLocals == <<saved, startFrom, remainingTalks>>
callVars == <<attempt, embedding, outstanding, requests, failures, response,
              clean, trace>>

\* StartRow resuming at the saved row itself
StartRowAtSaved(exists, content) ==
  IF exists /\ parseInt(content) # NaN THEN parseInt(content) ELSE 1

\* StartRow resuming two rows past the saved one
StartRowSkippingOne(exists, content) ==
  IF exists /\ parseInt(content) # NaN THEN parseInt(content) + 2 ELSE 1

\* lines 125-132: one past the saved row, row 1 without a readable file
StartRow(exists, content) ==
  IF exists /\ parseInt(content) # NaN THEN parseInt(content) + 1 ELSE 1

\* run(), lines 123-154: read progress.log, load the CSV, slice
RunStart ==
  /\ pc \in {"idle", "aborted", "done", "killed"}
  /\ runs < MaxRuns
  /\ runs' = runs + 1
  /\ saved' = IF progressExists THEN parseInt(progressFile) ELSE NaN
  /\ startFrom' = StartRow(progressExists, progressFile)
  /\ remainingTalks' = slice(talks, startFrom', Len(talks))
  /\ vectorCounter' = 0
  /\ currentRow' = startFrom'
  /\ pos' = 0
  /\ chunks' = <<>>
  /\ i' = 0
  /\ attempt' = 1
  /\ embedding' = "none"
  /\ outstanding' = 0
  /\ requests' = 0
  /\ failures' = 0
  /\ response' = "none"
  /\ error' = "none"
  /\ clean' = TRUE
  /\ trace' = <<>>
  /\ pc' = "row"
  /\ UNCHANGED <<persistent, others>>

\* lines 158-161: a row without transcript is passed over
SkipRow ==
  /\ pc = "row"
  /\ pos < Len(remainingTalks)
  /\ NoTranscript(row)
  /\ currentRow' = currentRow + 1
  /\ pos' = pos + 1
  /\ UNCHANGED <<persistent, runs, pc, runLocals, vectorCounter, chunks, i,
                 callVars, error, others>>

\* line 163: chunk the transcript and enter the inner loop
BeginRow ==
  /\ pc = "row"
  /\ pos < Len(remainingTalks)
  /\ ~NoTranscript(row)
  /\ chunks' = chunkOffsets(row.transcript)
  /\ i' = 0
  /\ clean' = TRUE
  /\ trace' = <<>>
  /\ pc' = "chunk"
  /\ UNCHANGED <<persistent, runs, runLocals, pos, currentRow, vectorCounter,
                 attempt, embedding, outstanding, requests, failures, response,
                 error, others>>

\* lines 164-166: next chunk, call getEmbedding
BeginChunk ==
  /\ pc = "chunk"
  /\ i < Len(chunks)
  /\ attempt' = 1
  /\ requests' = 0
  /\ failures' = 0
  /\ response' = "none"
  /\ embedding' = "none"
  /\ pc' = "embed"
  /\ UNCHANGED <<persistent, runs, runLocals, pos, currentRow, vectorCounter,
                 chunks, i, outstanding, error, clean, trace, others>>

\* EmbedLoopGuard stopping one attempt early
EmbedLoopGuardShort(a) == a < retries

\* line 49: does getEmbedding's loop make another attempt
EmbedLoopGuard(a) == a <= retries

\* getEmbedding lines 49-61: fetch
EmbedRequest ==
  /\ pc = "embed"
  /\ EmbedLoopGuard(attempt)
  /\ outstanding' = outstanding + 1
  /\ requests' = requests + 1
  /\ trace' = IF clean THEN Append(trace, <<"embed", chunks[i + 1]>>) ELSE trace
  /\ response' = "pending"
  /\ pc' = "embed_wait"
  /\ UNCHANGED <<persistent, runs, runLocals, pos, currentRow, vectorCounter,
                 chunks, i, attempt, embedding, failures, error, clean,
                 others>>

\* what the embedding endpoint can answer
EmbedOutcomes == {"vector", "no_embedding_field", "not_ok", "network_error",
                  "bad_body"}

\* lines 63-69: the outcomes that reach the return of line 69
EmbedReturns(o) == o \in {"vector", "no_embedding_field"}

\* getEmbedding lines 63-73: the answer to the fetch
EmbedResponse ==
  /\ pc = "embed_wait"
  /\ outstanding' = outstanding - 1
  /\ \E o \in EmbedOutcomes :
       /\ response' = o
       /\ IF EmbedReturns(o)
          THEN /\ embedding' = IF o = "vector" THEN "vector" ELSE "undefined"
               /\ pc' = "embedded"
               /\ UNCHANGED <<attempt, failures, clean, trace>>
          ELSE /\ attempt' = attempt + 1
               /\ failures' = failures + 1
               /\ clean' = FALSE
               /\ trace' = <<>>
               /\ pc' = "embed"
               /\ UNCHANGED embedding
  /\ UNCHANGED <<persistent, runs, runLocals, pos, currentRow, vectorCounter,
                 chunks, i, requests, error, others>>

\* lines 167-169: build the vector, call safeUpsert
BeginUpsert ==
  /\ pc = "embedded"
  /\ attempt' = 1
  /\ requests' = 0
  /\ failures' = 0
  /\ response' = "none"
  /\ pc' = "upsert"
  /\ UNCHANGED <<persistent, runs, runLocals, pos, currentRow, vectorCounter,
                 chunks, i, embedding, outstanding, error, clean, trace,
                 others>>

\* line 82: does safeUpsert's loop make another attempt
UpsertLoopGuard(a) == a <= retries

\* safeUpsert line 85: index.upsert of the one vector
UpsertRequest ==
  /\ pc = "upsert"
  /\ UpsertLoopGuard(attempt)
  /\ outstanding' = outstanding + 1
  /\ requests' = requests + 1
  /\ trace' = IF clean
              THEN Append(trace, <<"upsert", vectorId(row.talk_id, i)>>)
              ELSE trace
  /\ response' = "pending"
  /\ pc' = "upsert_wait"
  /\ UNCHANGED <<persistent, runs, runLocals, pos, currentRow, vectorCounter,
                 chunks, i, attempt, embedding, failures, error, clean,
                 others>>

\* what index.upsert can do
UpsertOutcomes == {"response", "empty_response", "throws"}

\* UpsertRetries treating an empty response as a failure too
UpsertRetriesOnEmpty(o) == o \in {"throws", "empty_response"}

\* lines 85-100: the outcomes after which safeUpsert tries again
UpsertRetries(o) == o = "throws"

\* safeUpsert lines 85-100: the answer to index.upsert
UpsertResponse ==
  /\ pc = "upsert_wait"
  /\ outstanding' = outstanding - 1
  /\ \E o \in UpsertOutcomes :
       /\ response' = o
       /\ IF UpsertRetries(o)
          THEN /\ attempt' = attempt + 1
               /\ failures' = failures + 1
               /\ clean' = FALSE
               /\ trace' = <<>>
               /\ pc' = "upsert"
               /\ UNCHANGED store
          ELSE /\ store' = store \cup {vectorId(row.talk_id, i)}
               /\ pc' = "upserted"
               /\ UNCHANGED <<attempt, failures, clean, trace>>
  /\ UNCHANGED <<talks, progressExists, progressFile, runs, runLocals, pos,
                 currentRow, vectorCounter, chunks, i, embedding, requests,
                 error, others>>

\* lines 177 and 164: count the vector, next chunk index
NextChunk ==
  /\ pc = "upserted"
  /\ vectorCounter' = vectorCounter + 1
  /\ i' = i + 1
  /\ response' = "none"
  /\ pc' = "chunk"
  /\ UNCHANGED <<persistent, runs, runLocals, pos, currentRow, chunks,
                 attempt, embedding, outstanding, requests, failures, clean,
                 trace, error, others>>

\* EmbedExhausted saving the row number on the way out
EmbedExhaustedSaving ==
  /\ pc = "embed"
  /\ ~(attempt <= retries)
  /\ error' = "Failed to embed after all retries."
  /\ progressExists' = TRUE
  /\ progressFile' = toString(currentRow)
  /\ pc' = "aborted"
  /\ UNCHANGED <<talks, store, runs, runLocals, pos, currentRow, vectorCounter,
                 chunks, i, callVars, others>>

\* EmbedExhausted starting over on the same chunk
EmbedExhaustedRetrying ==
  /\ pc = "embed"
  /\ ~(attempt <= retries)
  /\ attempt' = 1
  /\ requests' = 0
  /\ failures' = 0
  /\ response' = "none"
  /\ embedding' = "none"
  /\ UNCHANGED <<persistent, runs, pc, runLocals, pos, currentRow,
                 vectorCounter, chunks, i, outstanding, clean, trace, error,
                 others>>

\* lines 75 and 194-197: getEmbedding gives up, the throw ends the process
EmbedExhausted ==
  /\ pc = "embed"
  /\ ~EmbedLoopGuard(attempt)
  /\ error' = "Failed to embed after all retries."
  /\ pc' = "aborted"
  /\ UNCHANGED <<persistent, runs, runLocals, pos, currentRow, vectorCounter,
                 chunks, i, callVars, others>>

\* lines 102 and 194-197: safeUpsert gives up, the throw ends the process
UpsertExhausted ==
  /\ pc = "upsert"
  /\ ~UpsertLoopGuard(attempt)
  /\ error' = "Failed to upsert after multiple retries."
  /\ pc' = "aborted"
  /\ UNCHANGED <<persistent, runs, runLocals, pos, currentRow, vectorCounter,
                 chunks, i, callVars, others>>

\* line 181: is the row just finished one whose number is saved
SaveDue(r) == r % 5 = 0

\* lines 180-186: every fifth row save the row number, then advance
EndRow ==
  /\ pc = "chunk"
  /\ ~(i < Len(chunks))
  /\ IF SaveDue(currentRow)
     THEN /\ progressExists' = TRUE
          /\ progressFile' = toString(currentRow)
     ELSE UNCHANGED <<progressExists, progressFile>>
  /\ currentRow' = currentRow + 1
  /\ pos' = pos + 1
  /\ pc' = "row"
  /\ UNCHANGED <<talks, store, runs, runLocals, vectorCounter, chunks, i,
                 callVars, error, others>>

\* Finish saving the number of rows walked by this run
FinishSavingCount ==
  /\ pc = "row"
  /\ ~(pos < Len(remainingTalks))
  /\ progressExists' = TRUE
  /\ progressFile' = toString(pos)
  /\ pc' = "done"
  /\ UNCHANGED <<talks, store, runs, runLocals, pos, currentRow,
                 vectorCounter, chunks, i, callVars, error, others>>

\* Finish saving the last row walked instead of the row after it
FinishSavingLastRow ==
  /\ pc = "row"
  /\ ~(pos < Len(remainingTalks))
  /\ progressExists' = TRUE
  /\ progressFile' = toString(currentRow - 1)
  /\ pc' = "done"
  /\ UNCHANGED <<talks, store, runs, runLocals, pos, currentRow,
                 vectorCounter, chunks, i, callVars, error, others>>

\* lines 189-191: the loop is over, save the row number
Finish ==
  /\ pc = "row"
  /\ ~(pos < Len(remainingTalks))
  /\ progressExists' = TRUE
  /\ progressFile' = toString(currentRow)
  /\ pc' = "done"
  /\ UNCHANGED <<talks, store, runs, runLocals, pos, currentRow,
                 vectorCounter, chunks, i, callVars, error, others>>

Next ==
  \/ RunStart
  \/ SkipRow
  \/ BeginRow
  \/ BeginChunk
  \/ EmbedRequest
  \/ EmbedResponse
  \/ BeginUpsert
  \/ UpsertRequest
  \/ UpsertResponse
  \/ NextChunk
  \/ EmbedExhausted
  \/ UpsertExhausted
  \/ EndRow
  \/ Finish

Spec == Init /\ [][Next]_vars

\* ------------------------------------------------------------ properties
\* the number progress.log holds, read back independently of parseInt
Checkpoint ==
  CHOOSE n \in 0..(NumTalks + MaxRuns + 1) : toString(n) = progressFile

InRow == pc \in {"chunk", "embed", "embed_wait", "embedded", "upsert",
                 "upsert_wait", "upserted"}

\* C3: a run starts one past the persisted checkpoint (row 1 when there is
\* none): the rows it walks are exactly rows startFrom, startFrom + 1, ... in
\* order, currentRow is the index of the row at hand, and no row at or before
\* the checkpoint gets an embedding or upsert call in that run.
C3_StartsAfterCheckpoint ==
  /\ [][runs' # runs =>
          /\ startFrom' = IF progressExists THEN Checkpoint + 1 ELSE 1
          /\ \A k \in 1..Len(remainingTalks') :
               RowIndex(remainingTalks'[k]) = startFrom' + (k - 1)
          /\ Len(remainingTalks') =
               IF startFrom' < NumTalks THEN NumTalks - startFrom' ELSE 0]_vars
  /\ [](InRow => /\ RowIndex(row) = currentRow
                 /\ RowIndex(row) >= startFrom
                 /\ RowIndex(row) > saved)

C3_Witness ==
  /\ runs >= 2
  /\ saved = 10
  /\ startFrom = 11
  /\ pc = "embed_wait"
  /\ RowIndex(row) = 11
  /\ pos = 0

\* C4: when getEmbedding or safeUpsert gives up the run is over: the step
\* that aborts writes neither progress.log nor the store, an aborted run
\* makes no further call and writes nothing (only a new run can follow), and
\* progress.log still names a row before the one that failed.
C4_AbortStopsTheRun ==
  /\ [][/\ (pc' = "aborted" /\ pc # "aborted") =>
             /\ UNCHANGED <<progressExists, progressFile, store>>
             /\ failures = retries
             /\ requests' = requests
        /\ pc = "aborted" =>
             /\ runs' = runs + 1
             /\ UNCHANGED <<progressExists, progressFile, store>>
             /\ outstanding' = 0]_vars
  /\ [](pc = "aborted" =>
          /\ error # "none"
          /\ outstanding = 0
          /\ progressExists => Checkpoint < currentRow)

C4_Witness ==
  /\ pc = "aborted"
  /\ error = "Failed to upsert after multiple retries."
  /\ progressExists
  /\ Checkpoint = 5
  /\ currentRow = 6
  /\ i = 1
  /\ vectorId(row.talk_id, 0) \in store

\* C5: getEmbedding makes one request per attempt and at most 5: when it
\* returns it has made exactly (failed attempts + 1) requests, so 4 failures
\* and a success are 5 requests; when it gives up it has made exactly 5
\* requests, all failed.
C5_EmbedAttempts ==
  /\ pc \in {"embed", "embed_wait", "embedded"} => requests <= retries
  /\ pc = "embed" => requests = failures /\ attempt = failures + 1
  /\ pc = "embedded" => requests = failures + 1
  /\ (pc = "aborted" /\ error = "Failed to embed after all retries.") =>
       requests = retries /\ failures = retries

C5_Witness ==
  /\ pc = "embedded"
  /\ failures = 4
  /\ requests = 5
  /\ embedding = "vector"

\* C6: safeUpsert calls index.upsert again only after a call threw: when it
\* returns after k throws it has made exactly k + 1 calls, after 5 throws it
\* gives up having made exactly 5 calls, and a call answered with an empty
\* response ends it like any other answer.
C6_UpsertAttempts ==
  /\ pc \in {"upsert", "upsert_wait", "upserted"} => requests <= retries
  /\ pc = "upsert" =>
       /\ requests = failures
       /\ attempt = failures + 1
       /\ attempt > 1 => response = "throws"
  /\ pc = "upserted" =>
       /\ requests = failures + 1
       /\ response \in {"response", "empty_response"}
  /\ (pc = "aborted" /\ error = "Failed to upsert after multiple retries.") =>
       requests = retries /\ failures = retries

C6_Witness ==
  /\ pc = "upserted"
  /\ failures = 2
  /\ requests = 3
  /\ response = "empty_response"

\* the calls a row with n chunks makes when nothing fails
ExpectedCalls(r, n) ==
  [j \in 1..(2 * n) |->
     LET k == (j - 1) \div 2
         from == k * (CHUNK_SIZE - CHUNK_OVERLAP)
     IN  IF j % 2 = 1
         THEN <<"embed", <<from, Min(from + CHUNK_SIZE, r.transcript)>>>>
         ELSE <<"upsert", toString(r.talk_id) \o <<"-">> \o toString(k)>>]

\* calls the current row has issued, by the position of the script
Issued ==
  2 * i + (CASE pc \in {"embed_wait", "embedded", "upsert"} -> 1
             [] pc \in {"upsert_wait", "upserted"} -> 2
             [] OTHER -> 0)

\* C9: while no call of a row has failed, the calls made for it are
\* embed(chunk 0), upsert(id-0), embed(chunk 1), upsert(id-1), ... in that
\* order, one at a time; chunk i is embedded only when the upserts of all
\* chunks before it have returned; a 2400-character transcript of talk 42
\* gives chunks [0,1000) [800,1800) [1600,2400) and ids 42-0, 42-1, 42-2.
C9_AlternatingCalls ==
  /\ outstanding <= 1
  /\ outstanding = 1 <=> pc \in {"embed_wait", "upsert_wait"}
  /\ (InRow /\ clean) =>
       trace = SubSeq(ExpectedCalls(row, Len(chunks)), 1, Issued)
  /\ InRow => \A k \in 0..(i - 1) :
       toString(row.talk_id) \o <<"-">> \o toString(k) \in store
  /\ (pc = "chunk" /\ clean /\ i = Len(chunks) /\ row.talk_id = 42
        /\ row.transcript = 2400) =>
       trace = << <<"embed", <<0, 1000>>>>, <<"upsert", <<"4", "2", "-", "0">>>>,
                  <<"embed", <<800, 1800>>>>, <<"upsert", <<"4", "2", "-", "1">>>>,
                  <<"embed", <<1600, 2400>>>>, <<"upsert", <<"4", "2", "-", "2">>>> >>

C9_Witness ==
  /\ pc = "chunk"
  /\ clean
  /\ i = 3
  /\ Len(trace) = 6
  /\ row.talk_id = 42
  /\ row.transcript = 2400

\* ------------------------------------------------------------ SpecChunk
IngestIdle ==
  /\ talks = Dataset(0)
  /\ progressExists = FALSE
  /\ progressFile = <<>>
  /\ store = {}
  /\ runs = 0
  /\ pc = "idle"
  /\ saved = NaN
  /\ startFrom = 1
  /\ remainingTalks = <<>>
  /\ pos = 0
  /\ currentRow = 1
  /\ vectorCounter = 0
  /\ chunks = <<>>
  /\ i = 0
  /\ attempt = 1
  /\ embedding = "none"
  /\ outstanding = 0
  /\ requests = 0
  /\ failures = 0
  /\ response = "none"
  /\ error = "none"
  /\ clean = TRUE
  /\ trace = <<>>

InitChunk ==
  /\ IngestIdle
  /\ QueryIdle
  /\ text \in {Text(n) : n \in 0..MaxTextLen}
  /\ textChunks = <<>>
  /\ cpc = "call"
  /\ window = CHUNK_SIZE
  /\ overlap = CHUNK_OVERLAP
  /\ start = 0

\* lines 108-118: one call of chunkText
ChunkCall ==
  /\ cpc = "call"
  /\ textChunks' = chunkText(text)
  /\ cpc' = "returned"
  /\ UNCHANGED <<text, window, overlap, start, ingestVars, queryVars>>

NextChunkSpec == ChunkCall

SpecChunk == InitChunk /\ [][NextChunkSpec]_vars

\* C7: a text of 1 to 1000 characters comes back as one chunk, the text
\* itself (the empty text, which run() never chunks, is left out).
C7_OneChunkUpToWindow ==
  (cpc = "returned" /\ Len(text) >= 1 /\ Len(text) <= CHUNK_SIZE) =>
     textChunks = <<text>>

\* the last n characters of a are the first n characters of b
Shares(a, b, n) ==
  /\ n <= Len(a)
  /\ n <= Len(b)
  /\ SubSeq(a, Len(a) - n + 1, Len(a)) = SubSeq(b, 1, n)

\* chunk k without the characters it repeats from chunk k - 1
NonOverlapping(cs, k) ==
  IF k = 1 THEN cs[1]
  ELSE SubSeq(cs[k], Min(CHUNK_OVERLAP, Len(cs[k])) + 1, Len(cs[k]))

RECURSIVE Rebuilt(_, _)
Rebuilt(cs, k) ==
  IF k = 0 THEN <<>> ELSE Rebuilt(cs, k - 1) \o NonOverlapping(cs, k)

\* C8: for a text longer than 1000 characters, chunk 1 followed by every
\* later chunk without its first 200 characters (all of it, when it has fewer)
\* is the text again; consecutive chunks share exactly 200 characters, the
\* last pair min(200, length of the last chunk); no chunk is empty or longer
\* than 1000 characters.
C8_ChunksRebuildText ==
  (cpc = "returned" /\ Len(text) > CHUNK_SIZE) =>
     LET n == Len(textChunks)
     IN  /\ n >= 2
         /\ Rebuilt(textChunks, n) = text
         /\ \A k \in 1..(n - 2) :
              /\ Shares(textChunks[k], textChunks[k + 1], CHUNK_OVERLAP)
              /\ ~Shares(textChunks[k], textChunks[k + 1], CHUNK_OVERLAP + 1)
         /\ Shares(textChunks[n - 1], textChunks[n],
                   Min(CHUNK_OVERLAP, Len(textChunks[n])))
         /\ \A k \in 1..n : Len(textChunks[k]) \in 1..CHUNK_SIZE

C8_Witness ==
  /\ cpc = "returned"
  /\ Len(text) = 2450
  /\ Len(textChunks) = 4
  /\ Len(textChunks[4]) = 50

\* ------------------------------------------------------------ SpecChunkLoop
\* chunkText turn by turn, under the shipped pair of lines 18-19 and under
\* other values of the two constants
MaxPushes == MaxLoopLen + 1    \* turns of the while loop that are followed

Configs ==
  {<<CHUNK_SIZE, CHUNK_OVERLAP>>} \cup ((1..MaxWindow) \X (0..MaxWindow))

InitChunkLoop ==
  /\ IngestIdle
  /\ QueryIdle
  /\ text \in {Text(n) : n \in 0..MaxLoopLen}
  /\ \E c \in Configs : window = c[1] /\ overlap = c[2]
  /\ textChunks = <<>>
  /\ start = 0
  /\ cpc = "call"

\* lines 108-110: entry, chunks = [] and start = 0
ChunkEnter ==
  /\ cpc = "call"
  /\ textChunks' = <<>>
  /\ start' = 0
  /\ cpc' = "loop"
  /\ UNCHANGED <<text, window, overlap, ingestVars, queryVars>>

\* lines 111-116: one turn of the while loop
ChunkPush ==
  /\ cpc = "loop"
  /\ start < Len(text)
  /\ Len(textChunks) < MaxPushes
  /\ textChunks' = Append(textChunks, slice(text, start, start + window))
  /\ start' = start + (window - overlap)
  /\ UNCHANGED <<text, cpc, window, overlap, ingestVars, queryVars>>

\* lines 111, 117: the loop condition fails, return chunks
ChunkReturn ==
  /\ cpc = "loop"
  /\ ~(start < Len(text))
  /\ cpc' = "returned"
  /\ UNCHANGED <<text, textChunks, window, overlap, start, ingestVars, queryVars>>

NextChunkLoop == ChunkEnter \/ ChunkPush \/ ChunkReturn

SpecChunkLoop == InitChunkLoop /\ [][NextChunkLoop]_vars

BadConfigNeverReturns ==
  (overlap >= window /\ Len(text) > 0) => cpc # "returned"

\* the loop, turn by turn, returns what chunkText(text) is
LoopIsChunkText ==
  (cpc = "returned" /\ window = CHUNK_SIZE /\ overlap = CHUNK_OVERLAP) =>
     textChunks = chunkText(text)

\* ------------------------------------------------------------ chunk count
CeilDiv(a, b) == (a + b - 1) \div b

\* C16: a text of L > 0 characters comes back as ceil((L - 200) / 800)
\* chunks, and as one chunk at least.
C16_ChunkCount ==
  (cpc = "returned" /\ Len(text) > 0) =>
     Len(textChunks) =
        Max(1, CeilDiv(Len(text) - CHUNK_OVERLAP, CHUNK_SIZE - CHUNK_OVERLAP))

\* what chunkText returns: ceil(L / 800) chunks
ChunkCountIsCeilOfStep ==
  cpc = "returned" =>
     Len(textChunks) = CeilDiv(Len(text), CHUNK_SIZE - CHUNK_OVERLAP)

\* ------------------------------------------------------------ SpecQuery
TOP_K == 15

SYSTEM_PROMPT == "You are a TED Talk assistant ..."

Whitespace == {" ", "\t", "\n"}

RECURSIVE trimStart(_)
trimStart(s) ==
  IF s # <<>> /\ Head(s) \in Whitespace THEN trimStart(Tail(s)) ELSE s

RECURSIVE trimEnd(_)
trimEnd(s) ==
  IF s # <<>> /\ s[Len(s)] \in Whitespace
  THEN trimEnd(SubSeq(s, 1, Len(s) - 1))
  ELSE s

\* String.prototype.trim
trim(s) == trimEnd(trimStart(s))

\* the request bodies: what req.json() yields, or that it throws
Bodies ==
  { [json |-> "throws"],
    [json |-> "null"],
    [json |-> "object"],
    [json |-> "object", question |-> [type |-> "null", chars |-> <<>>]],
    [json |-> "object", question |-> [type |-> "number", chars |-> <<"0">>]],
    [json |-> "object", question |-> [type |-> "number", chars |-> <<"7">>]],
    [json |-> "object", question |-> [type |-> "string", chars |-> <<>>]],
    [json |-> "object", question |-> [type |-> "string", chars |-> <<" ", "\t">>]],
    [json |-> "object", question |-> [type |-> "string", chars |-> <<"q">>]],
    [json |-> "object",
     question |-> [type |-> "string", chars |-> <<" ", "q", " ", "a", "\n">>]] }

\* body?.question is undefined
NoQuestion(body) == body.json = "null" \/ "question" \notin DOMAIN body

\* !value for the values a question can be
Falsy(v) ==
  \/ v.type = "null"
  \/ v.type = "number" /\ v.chars = <<"0">>
  \/ v.type = "string" /\ v.chars = <<>>

\* line 96: !body?.question || typeof body.question !== "string"
MissingQuestion(body) ==
  IF NoQuestion(body) THEN TRUE
  ELSE Falsy(body.question) \/ body.question.type # "string"

FullMetadata ==
  [talk_id |-> "42", title |-> "t", speaker |-> "s", topics |-> "p",
   event |-> "e", description |-> "d", text |-> "chunk"]

\* what index.query can answer, or that it throws
QueryOutcomes ==
  { [throws |-> TRUE],
    [throws |-> FALSE, result |-> [namespace |-> ""]],
    [throws |-> FALSE, result |-> [matches |-> <<>>]],
    [throws |-> FALSE,
     result |-> [matches |-> << [score |-> 9, metadata |-> FullMetadata] >>]],
    [throws |-> FALSE,
     result |-> [matches |-> << [score |-> 9, metadata |-> FullMetadata],
                                [score |-> 5],
                                [metadata |-> [talk_id |-> "7"]] >>]] }

\* line 122: queryResult.matches ?? []
Matches(result) ==
  IF "matches" \in DOMAIN result THEN result.matches ELSE <<>>

\* meta.f ?? ""
Field(meta, f) == IF f \in DOMAIN meta THEN meta[f] ELSE ""

\* lines 126-137: one entry of the context
ContextEntry(m) ==
  LET meta == IF "metadata" \in DOMAIN m THEN m.metadata ELSE [none |-> ""]
  IN  [talk_id |-> Field(meta, "talk_id"),
       title |-> Field(meta, "title"),
       speaker |-> Field(meta, "speaker"),
       topics |-> Field(meta, "topics"),
       event |-> Field(meta, "event"),
       description |-> Field(meta, "description"),
       chunk |-> Field(meta, "text"),
       score |-> IF "score" \in DOMAIN m THEN m.score ELSE 0]

\* buildContext with a blank entry standing in for no match
buildContextPadded(ms) ==
  IF ms = <<>> THEN << ContextEntry([score |-> 0]) >>
  ELSE [k \in 1..Len(ms) |-> ContextEntry(ms[k])]

\* lines 125-138: matches.map(...)
buildContext(ms) == [k \in 1..Len(ms) |-> ContextEntry(ms[k])]

\* lines 141-160: the user prompt, by the two values the template interpolates
userPrompt(question, context) == [question |-> question, context |-> context]

\* what the embedding endpoint can answer to the handler
QueryEmbedOutcomes == {"vector", "wrong_dimension", "no_embedding_field",
                       "not_ok", "network_error", "bad_body"}

\* what the chat endpoint can answer: a body with this content, or a failure
ChatOutcomes ==
  { [ok |-> TRUE, content |-> <<" ", "a", "n", "s", "\n">>],
    [ok |-> TRUE],
    [ok |-> FALSE, how |-> "not_ok"],
    [ok |-> FALSE, how |-> "network_error"],
    [ok |-> FALSE, how |-> "bad_body"] }

\* line 89: String(data?.choices?.[0]?.message?.content ?? "").trim()
Answer(o) == trim(IF "content" \in DOMAIN o THEN o.content ELSE <<>>)

Requests == 1..MaxRequests

NewRequest(body) ==
  [pc |-> "json", body |-> body, question |-> <<>>, matches |-> <<>>,
   context |-> <<>>, prompt |-> userPrompt(<<>>, <<>>), calls |-> <<>>,
   topK |-> 0, caught |-> "none", status |-> 0, out |-> [none |-> ""]]

\* lines 173-178 with the detail of the failure handed to the caller
CatchLeaking(q, stage) ==
  [q EXCEPT !.pc = "responded", !.caught = stage, !.status = 500,
            !.out = [error |-> stage]]

\* lines 173-178: log the failure, answer 500 with the generic message
Catch(q, stage) ==
  [q EXCEPT !.pc = "responded", !.caught = stage, !.status = 500,
            !.out = [error |-> "Internal server error"]]

\* lines 97-100 and 106-109: answer 400
Reject(q, message) ==
  [q EXCEPT !.pc = "responded", !.status = 400, !.out = [error |-> message]]

InitQuery ==
  /\ IngestIdle
  /\ ChunkIdle
  /\ llmApiKey \in BOOLEAN
  /\ req = <<>>

\* the server hands a POST to the handler
Arrive ==
  /\ Len(req) < MaxRequests
  /\ \E body \in Bodies : req' = Append(req, NewRequest(body))
  /\ UNCHANGED <<llmApiKey, ingestVars, chunkVars>>

\* lines 94-113 and getEmbedding lines 30-44: parse, validate, ask for the
\* embedding of the question
Validate ==
  /\ \E r \in DOMAIN req :
       LET q == req[r]
       IN  /\ q.pc = "json"
           /\ req' = [req EXCEPT ![r] =
                 IF q.body.json = "throws" THEN Catch(q, "json")
                 ELSE IF MissingQuestion(q.body)
                   THEN Reject(q, "Missing 'question' field in JSON body")
                 ELSE IF trim(q.body.question.chars) = <<>>
                   THEN Reject(q, "Question cannot be empty")
                 ELSE IF ~llmApiKey
                   THEN Catch([q EXCEPT !.question = trim(q.body.question.chars)],
                              "embed")
                 ELSE [q EXCEPT !.question = trim(q.body.question.chars),
                                !.calls = Append(q.calls, "embed"),
                                !.pc = "embed_wait"]]
  /\ UNCHANGED <<llmApiKey, ingestVars, chunkVars>>

\* QueryEmbedResponse asking once more for an embedding that failed
QueryEmbedResponseRetrying ==
  /\ \E r \in DOMAIN req : \E o \in QueryEmbedOutcomes :
       LET q == req[r]
       IN  /\ q.pc = "embed_wait"
           /\ req' = [req EXCEPT ![r] =
                 IF o = "vector"
                 THEN [q EXCEPT !.calls = Append(q.calls, "query"),
                                !.topK = TOP_K,
                                !.pc = "query_wait"]
                 ELSE IF Len(q.calls) < 2
                   THEN [q EXCEPT !.calls = Append(q.calls, "embed")]
                 ELSE Catch(q, "embed")]
  /\ UNCHANGED <<llmApiKey, ingestVars, chunkVars>>

\* getEmbedding lines 46-58, then lines 116-120: the embedding arrives, query
QueryEmbedResponse ==
  /\ \E r \in DOMAIN req : \E o \in QueryEmbedOutcomes :
       LET q == req[r]
       IN  /\ q.pc = "embed_wait"
           /\ req' = [req EXCEPT ![r] =
                 IF o = "vector"
                 THEN [q EXCEPT !.calls = Append(q.calls, "query"),
                                !.topK = TOP_K,
                                !.pc = "query_wait"]
                 ELSE Catch(q, "embed")]
  /\ UNCHANGED <<llmApiKey, ingestVars, chunkVars>>

\* lines 122-163 and callTedModel lines 63-81: the matches arrive, build the
\* context and the prompt, ask the model
QueryResponse ==
  /\ \E r \in DOMAIN req : \E o \in QueryOutcomes :
       LET q == req[r]
           ms == Matches(o.result)
           ctx == buildContext(ms)
       IN  /\ q.pc = "query_wait"
           /\ req' = [req EXCEPT ![r] =
                 IF o.throws THEN Catch(q, "query")
                 ELSE IF ~llmApiKey
                   THEN Catch([q EXCEPT !.matches = ms, !.context = ctx,
                                        !.prompt = userPrompt(q.question, ctx)],
                              "chat")
                 ELSE [q EXCEPT !.matches = ms,
                                !.context = ctx,
                                !.prompt = userPrompt(q.question, ctx),
                                !.calls = Append(q.calls, "chat"),
                                !.pc = "chat_wait"]]
  /\ UNCHANGED <<llmApiKey, ingestVars, chunkVars>>

\* callTedModel lines 83-89, then lines 165-172: the answer arrives, respond
ChatResponse ==
  /\ \E r \in DOMAIN req : \E o \in ChatOutcomes :
       LET q == req[r]
       IN  /\ q.pc = "chat_wait"
           /\ req' = [req EXCEPT ![r] =
                 IF o.ok
                 THEN [q EXCEPT !.pc = "responded",
                                !.status = 200,
                                !.out = [response |-> Answer(o),
                                         context |-> q.context,
                                         Augmented_prompt |->
                                           [System |-> SYSTEM_PROMPT,
                                            User |-> q.prompt]]]
                 ELSE Catch(q, "chat")]
  /\ UNCHANGED <<llmApiKey, ingestVars, chunkVars>>

NextQuery ==
  \/ Arrive
  \/ Validate
  \/ QueryEmbedResponse
  \/ QueryResponse
  \/ ChatResponse

SpecQuery == InitQuery /\ [][NextQuery]_vars

\* a body that carries a question: a string with a character that is not
\* whitespace
ValidQuestion(body) ==
  /\ body.json = "object"
  /\ "question" \in DOMAIN body
  /\ body.question.type = "string"
  /\ \E k \in 1..Len(body.question.chars) :
       body.question.chars[k] \notin Whitespace

\* the vector store answered the request's query with no match
ZeroMatches(q) ==
  /\ q.pc \in {"chat_wait", "responded"}
  /\ Len(q.calls) >= 2
  /\ q.caught # "query"
  /\ q.matches = <<>>

Fallback == <<"I don't know based on the provided data">>

\* C1, as stated: a request whose query finds no match is answered with the
\* fixed fallback answer and an empty context, and the chat API is not called.
C1_ZeroMatchesFallback ==
  \A r \in DOMAIN req :
    ZeroMatches(req[r]) =>
      /\ \A k \in 1..Len(req[r].calls) : req[r].calls[k] # "chat"
      /\ req[r].pc = "responded"
      /\ req[r].status = 200
      /\ req[r].out.response = Fallback
      /\ req[r].out.context = <<>>

\* C1, amended: a request whose query finds no match still asks the chat
\* model, once, with a prompt whose context is empty; when the model answers
\* the response is 200 with the model's answer and an empty context array,
\* and when the chat call fails it is 500.
C1_ZeroMatchesAsksModel ==
  \A r \in DOMAIN req :
    LET q == req[r]
    IN  ZeroMatches(q) =>
          /\ q.calls = <<"embed", "query", "chat">>
          /\ q.context = <<>>
          /\ q.prompt = [question |-> trim(q.body.question.chars),
                         context |-> <<>>]
          /\ q.pc = "responded" =>
               \/ /\ q.status = 200
                  /\ q.out.response \in {<<"a", "n", "s">>, <<>>}
                  /\ q.out.context = <<>>
                  /\ q.out.Augmented_prompt.User = q.prompt
               \/ /\ q.status = 500
                  /\ q.caught = "chat"

C1_Witness ==
  \E r \in DOMAIN req :
    /\ ZeroMatches(req[r])
    /\ req[r].pc = "responded"
    /\ req[r].status = 200
    /\ req[r].out.response = <<"a", "n", "s">>
    /\ req[r].out.context = <<>>

\* C2, as stated: a request whose question is missing, not a string, empty
\* or only whitespace is answered 400 and causes no remote call.
C2_InvalidQuestionIs400 ==
  \A r \in DOMAIN req :
    (req[r].pc # "json" /\ ~ValidQuestion(req[r].body)) =>
      /\ req[r].pc = "responded"
      /\ req[r].status = 400
      /\ req[r].calls = <<>>

\* C10: a request that fails at a stage is answered 500 with the generic
\* message only, has called nothing after the stage that failed, and stays
\* answered; every answered request has status 200, 400 or 500.
C10_FailuresAre500 ==
  /\ [](\A r \in DOMAIN req :
          LET q == req[r]
          IN  /\ q.caught # "none" =>
                   /\ q.pc = "responded"
                   /\ q.status = 500
                   /\ q.out = [error |-> "Internal server error"]
              /\ q.caught = "embed" => q.calls \in {<<>>, <<"embed">>}
              /\ q.caught = "query" => q.calls = <<"embed", "query">>
              /\ q.caught = "chat" => q.calls = <<"embed", "query", "chat">>
              /\ q.pc = "responded" => q.status \in {200, 400, 500}
              /\ q.status = 500 <=> q.caught # "none"
              /\ q.pc \in {"embed_wait", "query_wait", "chat_wait"} =>
                   q.status = 0)
  /\ [][\A r \in DOMAIN req :
          req[r].pc = "responded" => req'[r] = req[r]]_vars

C10_Witness ==
  \E r \in DOMAIN req :
    /\ req[r].caught = "query"
    /\ req[r].pc = "responded"
    /\ req[r].status = 500
    /\ req[r].calls = <<"embed", "query">>

\* ------------------------------------------------------------ calls of a request
IsPrefix(s, t) == Len(s) <= Len(t) /\ s = SubSeq(t, 1, Len(s))

CallOrder == <<"embed", "query", "chat">>

\* C19: a request answered 200 with at least one match has made one
\* embedding call, then one query with topK 15, then one chat call; every
\* request, failed ones included, has made a prefix of that sequence.
C19_OneCallOfEachKind ==
  \A r \in DOMAIN req :
     /\ IsPrefix(req[r].calls, CallOrder)
     /\ (req[r].status = 200 /\ req[r].matches # <<>>) =>
          (req[r].calls = CallOrder /\ req[r].topK = TOP_K)

C19_Witness ==
  /\ Len(req) = 2
  /\ req[1].status = 200
  /\ req[1].matches # <<>>
  /\ req[1].calls = CallOrder
  /\ req[2].status = 500
  /\ req[2].caught = "query"
  /\ req[2].calls = <<"embed", "query">>

\* ------------------------------------------------------------ properties of run(), continued
\* C11: a run that reaches the end of the dataset leaves in progress.log one
\* past the index of the last row it walked: NumTalks, whenever it started
\* at a row of the dataset.
C11_FinalCheckpoint ==
  (pc = "done" /\ startFrom <= NumTalks - 1) =>
     /\ progressExists
     /\ remainingTalks # <<>>
     /\ Checkpoint = RowIndex(remainingTalks[Len(remainingTalks)]) + 1
     /\ Checkpoint = NumTalks

C11_Witness ==
  /\ pc = "done"
  /\ runs = 2
  /\ saved = 10
  /\ startFrom = 11
  /\ error = "none"
  /\ Checkpoint = NumTalks

\* C13: every fifth record that finishes in a run, processed or skipped,
\* has its row number saved to progress.log as it finishes.
C13_SaveEveryFifth ==
  [][(pos' = pos + 1 /\ pos' % 5 = 0) =>
        (progressExists' /\ progressFile' = toString(currentRow))]_vars

\* rows the checkpoint covers: those up to the value in progress.log
Covered == IF progressExists /\ parseInt(progressFile) # NaN
           THEN parseInt(progressFile) ELSE 0

\* rows this run has finished that the checkpoint does not cover
Uncovered == (currentRow - 1) - Max(Covered, startFrom - 1)

\* C14: at every point of a run at most 5 finished records are not covered
\* by the checkpoint in progress.log.
C14_AtMostFiveUncovered ==
  pc # "idle" => Uncovered <= 5

\* C15: what getEmbedding hands to the loop of run(), and what the loop
\* upserts, is a vector.
C15_EmbedReturnsVector ==
  pc \in {"embedded", "upsert", "upsert_wait", "upserted"} =>
     embedding = "vector"

\* C17: within a run every write to progress.log stores a row number that
\* is at least the one loaded at the start and at least the one it replaces.
C17_CheckpointMonotonic ==
  [][(runs' = runs /\ progressExists' /\ progressFile' # progressFile) =>
        /\ Checkpoint' >= saved
        /\ progressExists => Checkpoint' >= Checkpoint]_vars

C17_Witness ==
  /\ runs = 2
  /\ saved = 5
  /\ pc = "row"
  /\ currentRow = 11
  /\ progressExists
  /\ Checkpoint = 10

\* C18: a row whose transcript is absent or empty is passed over in one
\* step: the row number and the position advance by one, the script goes on
\* with the next row, and no remote call, upsert or failure comes of it.
C18_SkipIsPassThrough ==
  [][(/\ pc = "row"
      /\ pos < Len(remainingTalks)
      /\ IF "transcript" \in DOMAIN row THEN row.transcript = 0 ELSE TRUE)
     => /\ currentRow' = currentRow + 1
        /\ pos' = pos + 1
        /\ pc' = "row"
        /\ UNCHANGED <<store, outstanding, requests, failures, trace, clean,
                       error, vectorCounter, embedding, runs>>]_vars

C18_Witness ==
  /\ pc = "row"
  /\ pos >= 2
  /\ "transcript" \notin DOMAIN remainingTalks[pos - 1]
  /\ "transcript" \in DOMAIN remainingTalks[pos]
  /\ remainingTalks[pos].transcript = 0
  /\ currentRow = startFrom + pos
  /\ error = "none"
  /\ store # {}

\* ------------------------------------------------------------ SpecLive
\* the script keeps running once started, and every remote call it awaits
\* returns or throws
RunStep ==
  \/ SkipRow
  \/ BeginRow
  \/ BeginChunk
  \/ EmbedRequest
  \/ EmbedResponse
  \/ BeginUpsert
  \/ UpsertRequest
  \/ UpsertResponse
  \/ NextChunk
  \/ EmbedExhausted
  \/ UpsertExhausted
  \/ EndRow
  \/ Finish

SpecLive == Spec /\ WF_vars(RunStep)

\* C20: a run that has started ends, done or aborted; no call of
\* getEmbedding or safeUpsert issues more than 5 requests.
C20_RunTerminates ==
  /\ (pc \notin {"idle", "done", "aborted"}) ~> (pc \in {"done", "aborted"})
  /\ [](requests <= retries)

C20_Witness ==
  /\ pc = "aborted"
  /\ error = "Failed to upsert after multiple retries."
  /\ requests = retries
  /\ failures = retries
  /\ i = 2
  /\ runs = MaxRuns

\* ------------------------------------------------------------ SpecKill
\* runs that are also ended from outside, at any point, and started again
Running == pc = "row" \/ InRow

\* the process is killed between two statements; an index.upsert request
\* already sent may still reach the vector store
Kill ==
  /\ Running
  /\ pc' = "killed"
  /\ IF pc = "upsert_wait"
     THEN store' \in {store, store \cup {vectorId(row.talk_id, i)}}
     ELSE UNCHANGED store
  /\ UNCHANGED <<talks, progressExists, progressFile, runs, runLocals, pos,
                 currentRow, vectorCounter, chunks, i, callVars, error, others>>

\* the process is killed inside fs.writeFileSync (lines 183 and 191), after
\* progress.log was truncated and before the row number was written
KillInSave ==
  /\ \/ pc = "chunk" /\ ~(i < Len(chunks)) /\ SaveDue(currentRow)
     \/ pc = "row" /\ ~(pos < Len(remainingTalks))
  /\ progressExists' = TRUE
  /\ progressFile' = <<>>
  /\ pc' = "killed"
  /\ UNCHANGED <<talks, store, runs, runLocals, pos, currentRow,
                 vectorCounter, chunks, i, callVars, error, others>>

NextKill == Next \/ Kill \/ KillInSave

SpecKill == Init /\ [][NextKill]_vars

\* the ids of the chunks of a row: `${talk_id}-0` .. `${talk_id}-(n-1)`
ChunkIds(r) ==
  {vectorId(r.talk_id, k) : k \in 0..(Len(chunkOffsets(r.transcript)) - 1)}

\* C21: whatever runs were aborted, killed and started again, every row
\* with a transcript whose index is from 1 up to the row number held in
\* progress.log has had an upsert return for each of its chunk ids.
C21_NoGapBelowCheckpoint ==
  \A k \in 1..Min(Covered, NumTalks - 1) :
     ~NoTranscript(talks[k + 1]) => ChunkIds(talks[k + 1]) \subseteq store

C21_Witness ==
  /\ runs = 3
  /\ saved = 5
  /\ pc = "killed"
  /\ Covered = 10
  /\ currentRow = 11
  /\ error = "none"
  /\ ~NoTranscript(talks[6])
  /\ ChunkIds(talks[6]) \subseteq store

====
